---- MODULE Spec2Model ----
(***************************************************************************)
(* A model of the one-way sync engine of Ytmusic-Spotify-Sync:             *)
(* SimpleSyncEngine.sync_playlist_spotify_to_youtube (src/src/sync.py)     *)
(* together with the service methods it calls (src/src/services_spotify.py *)
(* and src/src/services_youtube.py) and the scoring function it uses       *)
(* (src/src/matching.py).                                                  *)
(*                                                                         *)
(* One run of the engine is a process whose position is pc.  Every step    *)
(* is one statement group of the function: a call to a collaborator with   *)
(* everything the engine does with the answer, up to the next call.  The   *)
(* answers of the remote APIs (spotipy, ytmusicapi) are inputs, drawn with *)
(* \E from small sets.  An exception raised inside the try block of the    *)
(* function is handled in the step that raises it (lines 289-299).         *)
(*                                                                         *)
(* SongMatcher.find_best_match (src/src/matching.py) and the functions of  *)
(* src/src/normalize.py are operators; MatcherSpec and NormalizeSpec call  *)
(* them on arguments drawn from bounded sets (fn_call) and keep what they  *)
(* return (fn_result).                                                     *)
(***************************************************************************)
EXTENDS Integers, Sequences, FiniteSets, TLC

VARIABLES
    sp,                  \* SpotifyService.sp is set (authenticate() succeeded)
    create_if_missing,   \* argument of the run
    pc,                  \* position of the run
    playlist_name,       \* local of the run (line 78)
    source_tracks,       \* local (line 86): the source tracks, by position
    youtube_playlist_id, \* argument, reassigned at line 106
    existing_track_ids,  \* local (line 121): the baseline set
    matched_video_ids,   \* local (line 126)
    failed_songs,        \* local (line 127)
    idx,                 \* position of the match loop (line 133), 1-based
    i,                   \* offset of the batch loop (line 221), 0-based
    successfully_added,  \* local (line 219)
    result,              \* the SyncResult handed to the caller
    srcFetch,            \* history: how sp.playlist_tracks answered
    suppliedId,          \* history: the youtube_playlist_id the run was called with
    createCalls,         \* history: number of create_playlist calls
    baselineCalls,       \* history: the playlist ids passed to get_playlist_tracks
    baselineReturned,    \* history: ids of the tracks get_playlist_tracks returned
    searchCalls,         \* history: number of search_song calls
    searchFailedAt,      \* history: source positions whose ytmusic.search raised
    skippedAt,           \* history: source positions skipped at line 163
    acceptedAt,          \* history: acceptedAt[m] is the source position of matched_video_ids[m]
    acceptedConf,        \* history: acceptedConf[m] is the confidence matched_video_ids[m] was appended with
    searchedAt,          \* history: source positions search_song was called for
    addCalls,            \* history: the add_songs_to_playlist calls and their answers
    raised,              \* history: the exception that reached line 289
    returns,             \* history: number of SyncResults returned
    fn_call,             \* a call of a function of matching.py or normalize.py: its arguments
    fn_result,           \* what that call returned
    active,              \* which of two runs of the engine is executing
    suspended,           \* the locals of the run that is not executing
    authLog              \* history: what the calls of authenticate() returned

\* The variables of a run of the engine
runLocals == <<create_if_missing, pc, playlist_name, source_tracks,
               youtube_playlist_id, existing_track_ids, matched_video_ids,
               failed_songs, idx, i, successfully_added, result, srcFetch,
               suppliedId, createCalls, baselineCalls, baselineReturned,
               searchCalls, searchFailedAt, skippedAt, acceptedAt,
               acceptedConf, searchedAt, addCalls, raised, returns>>

engineVars == <<sp, runLocals>>

\* The variables of a call of a library function
callVars == <<fn_call, fn_result>>

\* The variables a step of a run leaves alone
restVars == <<callVars, active, suspended, authLog>>

\* The variables a call of a library function leaves alone
idleVars == <<engineVars, active, suspended, authLog>>

vars == <<engineVars, callVars, active, suspended, authLog>>

---------------------------------------------------------------------------
(* Bounds of the model *)

\* Longest source playlist whose tracks get every search answer.
MaxRich == 2
\* Bulk playlists have batch_size .. batch_size + MaxOverflow tracks.
MaxOverflow == 1
\* Longest text over TextAlphabet handed to the functions of normalize.py.
MaxLen == 4
\* Longest candidate list handed to SongMatcher.find_best_match.
MaxCands == 2

---------------------------------------------------------------------------
(* Values *)

None == "None"

\* Video ids a search may answer with; "abc" is shorter than 5 characters.
VideoIds == {"vidAAAAA", "vidBBBBB"}
ShortIds == {"abc"}
\* Ids the target playlist may hold before the run.
BaselineIds == {"vidAAAAA"}

\* (title_score, artist_score) of fuzz.token_sort_ratio, each 0..100
ScorePairs == {<<100, 50>>, <<75, 75>>, <<70, 70>>, <<69, 71>>}

batch_size == 10

\* SongMatcher.__init__ defaults, in tenths
title_weight == 6
artist_weight == 4

\* The thresholds of the match loop, in tenths of a percent
accept_threshold == 800
possible_threshold == 700
auto_add_threshold == 750

SourcePlaylist == "spotify_pl"
Min(a, b) == IF a < b THEN a ELSE b

---------------------------------------------------------------------------
(* Answers of the remote APIs: the inputs of a run *)

\* sp.current_user_playlists: raises, or the ids of the user's playlists
PlaylistsAnswers ==
    {[raise |-> TRUE, items |-> {}]} \cup
    {[raise |-> FALSE, items |-> s] : s \in {{}, {SourcePlaylist}}}

\* A source track: its position in the playlist, its name and the names of
\* its artists, each a sequence of characters
Track(k, name, artists) == [pos |-> k, name |-> name, artists |-> artists]
SongName == <<"S", "o", "n", "g">>
SongArtists == << <<"A", "b", "b", "a">> >>
\* A name of pure punctuation, and a track without artists
PunctuationName == <<"!", "!">>
NoArtists == <<>>

Tracks(n) == [k \in 1..n |-> Track(k, SongName, SongArtists)]
IsBulk(n) == n >= batch_size
SourceLengths == (0..MaxRich) \cup (batch_size..(batch_size + MaxOverflow))

\* The playlists of n tracks: at most one track of a short playlist has a
\* name of pure punctuation or no artists
TrackLists(n) ==
    IF IsBulk(n) THEN {Tracks(n)}
    ELSE {Tracks(n)} \cup
         {[Tracks(n) EXCEPT ![k] = Track(k, PunctuationName, SongArtists)] : k \in 1..n} \cup
         {[Tracks(n) EXCEPT ![k] = Track(k, SongName, NoArtists)] : k \in 1..n}

\* sp.playlist_tracks: raises, or the tracks of the playlist
TracksAnswers ==
    {[raise |-> TRUE, items |-> <<>>]} \cup
    {[raise |-> FALSE, items |-> tracks] :
        tracks \in UNION {TrackLists(n) : n \in SourceLengths}}

\* ytmusic.create_playlist: raises, or the id of the new playlist
CreateAnswers == {[raise |-> TRUE, id |-> None], [raise |-> FALSE, id |-> "PLnew"]}

\* ytmusic.get_playlist: raises, or the video ids of the playlist's tracks
PlaylistAnswers ==
    {[raise |-> TRUE, videoIds |-> {}]} \cup
    {[raise |-> FALSE, videoIds |-> s] : s \in SUBSET BaselineIds}

\* The id a bulk playlist's k-th track resolves to
BulkId(k) == "bulk_" \o ToString(k)

\* ytmusic.search for one track: raises, no results, or a first result with
\* its video id and its similarity to the source track
SearchAnswers(k, n) ==
    IF IsBulk(n)
    THEN {[raise |-> FALSE, empty |-> FALSE, videoId |-> BulkId(k), sims |-> <<100, 100>>]}
    ELSE {[raise |-> TRUE, empty |-> TRUE, videoId |-> None, sims |-> <<0, 0>>],
          [raise |-> FALSE, empty |-> TRUE, videoId |-> None, sims |-> <<0, 0>>]} \cup
         [raise : {FALSE}, empty : {FALSE}, videoId : VideoIds \cup ShortIds,
          sims : ScorePairs]

\* ytmusic.search for a query: a query without a title or without an artist
\* finds nothing
QueryAnswers(song_name, artist_name, k, n) ==
    IF song_name = <<>> \/ artist_name = <<>>
    THEN {[raise |-> FALSE, empty |-> TRUE, videoId |-> None, sims |-> <<0, 0>>]}
    ELSE SearchAnswers(k, n)

\* ytmusic.add_playlist_items for one chunk: raises or not
AddItemsAnswers == {[raise |-> TRUE], [raise |-> FALSE]}

---------------------------------------------------------------------------
(* SpotifyService *)

\* get_user_playlists: RuntimeError when not authenticated; an API error is
\* logged and an empty list returned.
get_user_playlists(authed, api) ==
    IF ~authed THEN [exc |-> "RuntimeError", value |-> {}]
    ELSE IF api.raise THEN [exc |-> None, value |-> {}]
    ELSE [exc |-> None, value |-> api.items]

\* get_playlist_tracks: RuntimeError when not authenticated; an API error is
\* logged and an empty list returned.
spotify_get_playlist_tracks(authed, api) ==
    IF ~authed THEN [exc |-> "RuntimeError", value |-> <<>>]
    ELSE IF api.raise THEN [exc |-> None, value |-> <<>>]
    ELSE [exc |-> None, value |-> api.items]

---------------------------------------------------------------------------
(* YouTubeMusicService.  Its records carry the video id under 'id' and the  *)
(* title under 'name'; 'artists' is a list of names.                        *)

\* create_playlist: the new id, or None when the API raises
create_playlist(api) == IF api.raise THEN None ELSE api.id

\* get_playlist_tracks: the tracks of the playlist, or [] when the API raises
get_playlist_tracks(api) ==
    IF api.raise THEN [keys |-> "id_name", ids |-> {}]
    ELSE [keys |-> "id_name", ids |-> api.videoIds]

\* search_song whose except clause lets the API's exception through
search_song_reraise(api) ==
    IF api.raise THEN [kind |-> "raise", exc |-> "Exception"]
    ELSE IF api.empty THEN [kind |-> "None"]
    ELSE [kind |-> "dict", keys |-> "id_name", vid |-> api.videoId,
          artists_str |-> FALSE, sims |-> api.sims]

\* search_song: the first result, or None when there is none or the API raises
search_song(api) ==
    IF api.raise THEN [kind |-> "None"]
    ELSE IF api.empty THEN [kind |-> "None"]
    ELSE [kind |-> "dict", keys |-> "id_name", vid |-> api.videoId,
          artists_str |-> FALSE, sims |-> api.sims]

\* add_songs_to_playlist: True, or False when the API raises.  A batch of the
\* engine (at most 10 ids) is one chunk of 50.
add_songs_to_playlist(video_ids, api) ==
    IF Len(video_ids) > 0 /\ api.raise
    THEN [kind |-> "bool", value |-> FALSE, exc |-> None]
    ELSE [kind |-> "bool", value |-> TRUE, exc |-> None]

---------------------------------------------------------------------------
(* What the engine's calls on self.youtube evaluate to.  The engine is      *)
(* handed its destination service; besides the records YouTubeMusicService  *)
(* builds, a call may answer with the records sync.py reads: the video id   *)
(* under 'videoId', the title under 'title', 'artists' a string or a list,  *)
(* and a dict with 'success', 'added' and 'error' for an addition.          *)

\* self.youtube.get_playlist_tracks(...) at line 120
BaselineResults(api) ==
    {get_playlist_tracks(api),
     [get_playlist_tracks(api) EXCEPT !.keys = "videoId_title"]}

\* self.youtube.search_song(...) at line 145
SearchResults(api, bulk) ==
    LET r == search_song(api)
        rekeyed == IF r.kind # "dict" THEN {}
                   ELSE {[r EXCEPT !.keys = "videoId_title", !.artists_str = b] :
                           b \in (IF bulk THEN {TRUE} ELSE BOOLEAN)}
    IN IF bulk THEN rekeyed ELSE {r} \cup rekeyed

\* self.youtube.add_songs_to_playlist(...) at line 228: the bool of
\* YouTubeMusicService, the dict the engine reads, None, or an exception
AddResults(batch, api) ==
    {add_songs_to_playlist(batch, api)} \cup
    (IF api.raise
     THEN {[kind |-> "dict", success |-> FALSE, added |-> 0, exc |-> None],
           [kind |-> "None", success |-> FALSE, added |-> 0, exc |-> None],
           [kind |-> "raise", success |-> FALSE, added |-> 0, exc |-> "Exception"]}
     ELSE {[kind |-> "dict", success |-> TRUE, added |-> k, exc |-> None] :
             k \in {Len(batch) - 1, Len(batch)}})

---------------------------------------------------------------------------
(* SongMatcher and find_best_match (src/src/matching.py) *)

\* SongMatcher.calculate_similarity on the two token_sort_ratio scores; the
\* weights are normalised to sum to 1.  The result is in tenths of a percent.
calculate_similarity(title_score, artist_score) ==
    ((title_score * title_weight + artist_score * artist_weight) * 10)
        \div (title_weight + artist_weight)

\* find_best_match: similarity / 100.0, kept in tenths of a percent
find_best_match(sims) == calculate_similarity(sims[1], sims[2])

\* MatchResult, lines 14-20; match_data is the position of the candidate in
\* the list, NoMatchData for None; scored counts the calculate_similarity
\* calls made
NoMatchData == 0
MatchResult(matched, confidence, match_data, reason, scored) ==
    [matched |-> matched, confidence |-> confidence, match_data |-> match_data,
     reason |-> reason, scored |-> scored]

\* line 126 without the test of the source's title and artist
MissingSourceMetadata_unchecked(source_song) == FALSE

\* line 126: if not source_title or not source_artist
MissingSourceMetadata(source_song) == ~source_song.title \/ ~source_song.artist

\* line 142: if not target_title or not target_artist
MissingTargetMetadata(candidate) == ~candidate.title \/ ~candidate.artist

\* line 152: if score > best_score
Better(score, best_score) == score > best_score

\* line 157 with > for >=
MeetsThreshold_strictly(best_score, min_confidence) == best_score > min_confidence

\* line 157: best_score >= self.min_confidence
MeetsThreshold(best_score, min_confidence) == best_score >= min_confidence

\* lines 134-154: the loop over the candidates from position k on; best is
\* (best_score, best_match, number of candidates scored)
RECURSIVE ScanCandidates(_, _, _)
ScanCandidates(candidate_songs, k, best) ==
    IF k > Len(candidate_songs) THEN best
    ELSE IF MissingTargetMetadata(candidate_songs[k])
    THEN ScanCandidates(candidate_songs, k + 1, best)
    ELSE LET score == calculate_similarity(candidate_songs[k].sims[1],
                                           candidate_songs[k].sims[2])
         IN ScanCandidates(candidate_songs, k + 1,
                IF Better(score, best.best_score)
                THEN [best_score |-> score, best_match |-> k,
                      scored |-> best.scored + 1]
                ELSE [best EXCEPT !.scored = best.scored + 1])

\* SongMatcher.find_best_match, lines 93-187
SongMatcher_find_best_match(source_song, candidate_songs, min_confidence) ==
    IF candidate_songs = <<>>
    THEN MatchResult(FALSE, 0, NoMatchData, "No candidates provided", 0)
    ELSE IF MissingSourceMetadata(source_song)
    THEN MatchResult(FALSE, 0, NoMatchData, "Missing source song metadata", 0)
    ELSE LET best == ScanCandidates(candidate_songs, 1,
                         [best_score |-> 0, best_match |-> NoMatchData, scored |-> 0])
         IN IF /\ MeetsThreshold(best.best_score, min_confidence)
               /\ best.best_match # NoMatchData
            THEN MatchResult(TRUE, best.best_score, best.best_match,
                             "Best match with confidence", best.scored)
            ELSE MatchResult(FALSE, best.best_score, best.best_match,
                             "Best match below threshold", best.scored)

---------------------------------------------------------------------------
(* SongNormalizer and the module functions of src/src/normalize.py.  A text *)
(* is the sequence of its characters; "e_acute" and "E_acute" stand for the *)
(* letters U+00E9 and U+00C9.                                               *)

LowerCase == <<"a", "b", "c", "d", "e", "f", "g", "h", "i", "j", "k", "l", "m",
               "n", "o", "p", "q", "r", "s", "t", "u", "v", "w", "x", "y", "z">>
UpperCase == <<"A", "B", "C", "D", "E", "F", "G", "H", "I", "J", "K", "L", "M",
               "N", "O", "P", "Q", "R", "S", "T", "U", "V", "W", "X", "Y", "Z">>
Digits == {"0", "1", "2", "3", "4", "5", "6", "7", "8", "9"}
Range(seq) == {seq[k] : k \in 1..Len(seq)}

\* \s of the regular expressions and of str.strip
Whitespace == {" "}

\* \w of the regular expressions, for \b
IsWord(c) ==
    c \in Range(LowerCase) \cup Range(UpperCase) \cup Digits \cup
          {"_", "e_acute", "E_acute"}

\* str.lower on one character
lower_char(c) ==
    IF c \in Range(UpperCase)
    THEN LowerCase[CHOOSE k \in 1..Len(UpperCase) : UpperCase[k] = c]
    ELSE IF c = "E_acute" THEN "e_acute" ELSE c

\* str.lower
lower(text) == [k \in 1..Len(text) |-> lower_char(text[k])]

\* str.strip
strip(text) ==
    LET inked == {k \in 1..Len(text) : text[k] \notin Whitespace}
    IN IF inked = {} THEN <<>>
       ELSE SubSeq(text, CHOOSE a \in inked : \A b \in inked : a <= b,
                         CHOOSE a \in inked : \A b \in inked : a >= b)

\* re.sub(r'\s+', ' ', text), from position k on
RECURSIVE collapse_whitespace(_, _)
collapse_whitespace(text, k) ==
    IF k > Len(text) THEN <<>>
    ELSE IF text[k] \notin Whitespace
    THEN <<text[k]>> \o collapse_whitespace(text, k + 1)
    ELSE IF k > 1 /\ text[k - 1] \in Whitespace
    THEN collapse_whitespace(text, k + 1)
    ELSE <<" ">> \o collapse_whitespace(text, k + 1)

\* the pattern, a literal in lower case, matches the text at position k
\* (re.IGNORECASE)
MatchesAt(pattern, text, k) ==
    /\ k + Len(pattern) - 1 <= Len(text)
    /\ \A j \in 1..Len(pattern) : lower_char(text[k + j - 1]) = pattern[j]

\* \b at position k: between text[k-1] and text[k]
WordBoundary(text, k) ==
    LET before == k > 1 /\ k - 1 <= Len(text) /\ IsWord(text[k - 1])
        after == k >= 1 /\ k <= Len(text) /\ IsWord(text[k])
    IN before # after

\* SongNormalizer._remove_accents: NFD, then drop the combining marks
remove_accents(text) ==
    [k \in 1..Len(text) |-> IF text[k] \in {"e_acute"} THEN "e"
                            ELSE IF text[k] = "E_acute" THEN "E" ELSE text[k]]

\* lines 90-91: re.sub(r'[^a-z0-9\s\-]', '', normalized)
KeptChar(c) == c \in Range(LowerCase) \cup Digits \cup Whitespace \cup {"-"}

\* SongNormalizer.normalize_text, lines 68-104
normalize_text(text) ==
    IF text = <<>> THEN [exc |-> "ValueError", value |-> <<>>]
    ELSE [exc |-> None,
          value |-> strip(collapse_whitespace(
                        SelectSeq(remove_accents(lower(text)), KeptChar), 1))]

\* The words of VIDEO_SUFFIXES, lines 21-37
OfficialVideo == <<"o", "f", "f", "i", "c", "i", "a", "l", " ", "v", "i", "d", "e", "o">>
OfficialMusicVideo ==
    <<"o", "f", "f", "i", "c", "i", "a", "l", " ", "m", "u", "s", "i", "c", " ",
      "v", "i", "d", "e", "o">>
OfficialAudio == <<"o", "f", "f", "i", "c", "i", "a", "l", " ", "a", "u", "d", "i", "o">>
LyricVideo == <<"l", "y", "r", "i", "c", " ", "v", "i", "d", "e", "o">>
Lyrics == <<"l", "y", "r", "i", "c", "s">>
SuffixWords == <<OfficialVideo, OfficialMusicVideo, OfficialAudio, LyricVideo, Lyrics>>

\* VIDEO_SUFFIXES in the order of the alternation
VIDEO_SUFFIXES ==
    [k \in 1..5 |-> <<"(">> \o SuffixWords[k] \o <<")">>] \o
    [k \in 1..5 |-> <<"[">> \o SuffixWords[k] \o <<"]">>] \o
    [k \in 1..5 |-> <<"-", " ">> \o SuffixWords[k]]

\* The alternatives of a list of literals that match at position k
AlternativesAt(patterns, text, k) ==
    {a \in 1..Len(patterns) : MatchesAt(patterns[a], text, k)}

\* video_suffix_pattern.sub('', title), from position k on: the first
\* alternative that matches at the leftmost position is removed
RECURSIVE video_suffix_sub(_, _)
video_suffix_sub(title, k) ==
    IF k > Len(title) THEN <<>>
    ELSE LET alts == AlternativesAt(VIDEO_SUFFIXES, title, k)
         IN IF alts = {} THEN <<title[k]>> \o video_suffix_sub(title, k + 1)
            ELSE LET first == CHOOSE a \in alts : \A b \in alts : a <= b
                 IN video_suffix_sub(title, k + Len(VIDEO_SUFFIXES[first]))

\* re.sub(r'\s*-\s*$', '', cleaned)
trailing_dash_sub(cleaned) ==
    LET inked == {k \in 1..Len(cleaned) : cleaned[k] \notin Whitespace}
        last == CHOOSE a \in inked : \A b \in inked : a >= b
        before == {k \in 1..(last - 1) : cleaned[k] \notin Whitespace}
    IN IF inked = {} THEN cleaned
       ELSE IF cleaned[last] # "-" THEN cleaned
       ELSE IF before = {} THEN <<>>
       ELSE SubSeq(cleaned, 1, CHOOSE a \in before : \A b \in before : a >= b)

\* SongNormalizer.remove_video_suffixes, lines 132-158
remove_video_suffixes(title) ==
    IF title = <<>> THEN title
    ELSE strip(trailing_dash_sub(
             collapse_whitespace(video_suffix_sub(title, 1), 1)))

Feat == <<"f", "e", "a", "t">>
Ft == <<"f", "t">>
Featuring == <<"f", "e", "a", "t", "u", "r", "i", "n", "g">>
With == <<"w", "i", "t", "h">>

\* \bword\.?\b at position k: the length of the match, 0 when there is none
AbbreviationAt(word, text, k) ==
    LET end == k + Len(word)
    IN IF ~(WordBoundary(text, k) /\ MatchesAt(word, text, k)) THEN 0
       ELSE IF end <= Len(text) /\ text[end] = "." /\ WordBoundary(text, end + 1)
       THEN Len(word) + 1
       ELSE IF WordBoundary(text, end) THEN Len(word) ELSE 0

\* \bword\b at position k: the length of the match, 0 when there is none
WordAt(word, text, k) ==
    IF /\ WordBoundary(text, k)
       /\ MatchesAt(word, text, k)
       /\ WordBoundary(text, k + Len(word))
    THEN Len(word) ELSE 0

\* FEATURING_PATTERNS, lines 40-45, at position k: the length of the match of
\* the first alternative that matches, 0 when none does
FeaturingAt(text, k) ==
    IF AbbreviationAt(Feat, text, k) > 0 THEN AbbreviationAt(Feat, text, k)
    ELSE IF AbbreviationAt(Ft, text, k) > 0 THEN AbbreviationAt(Ft, text, k)
    ELSE IF WordAt(Featuring, text, k) > 0 THEN WordAt(Featuring, text, k)
    ELSE WordAt(With, text, k)

\* featuring_pattern.sub('feat', text), from position k on
RECURSIVE featuring_sub(_, _)
featuring_sub(text, k) ==
    IF k > Len(text) THEN <<>>
    ELSE IF FeaturingAt(text, k) = 0
    THEN <<text[k]>> \o featuring_sub(text, k + 1)
    ELSE Feat \o featuring_sub(text, k + FeaturingAt(text, k))

\* The first position from k on that holds no whitespace
RECURSIVE SkipWhitespace(_, _)
SkipWhitespace(text, k) ==
    IF k <= Len(text) /\ text[k] \in Whitespace
    THEN SkipWhitespace(text, k + 1) ELSE k

\* re.sub(r'\s+feat\s+', ' feat ', normalized), from position k on
RECURSIVE feat_spacing_sub(_, _)
feat_spacing_sub(text, k) ==
    IF k > Len(text) THEN <<>>
    ELSE LET word == SkipWhitespace(text, k)
             rest == SkipWhitespace(text, word + Len(Feat))
         IN IF /\ word > k
               /\ word + Len(Feat) - 1 <= Len(text)
               /\ SubSeq(text, word, word + Len(Feat) - 1) = Feat
               /\ rest > word + Len(Feat)
            THEN <<" ">> \o Feat \o <<" ">> \o feat_spacing_sub(text, rest)
            ELSE <<text[k]>> \o feat_spacing_sub(text, k + 1)

\* SongNormalizer.normalize_featuring, lines 160-186
normalize_featuring(text) ==
    IF text = <<>> THEN text
    ELSE feat_spacing_sub(featuring_sub(text, 1), 1)

\* normalize_track_name, lines 333-353: the except clause falls back to
\* lower().strip() when normalize_text raises
normalize_track_name(track_name) ==
    IF track_name = <<>> THEN <<>>
    ELSE LET r == normalize_text(normalize_featuring(remove_video_suffixes(track_name)))
         IN IF r.exc # None THEN strip(lower(track_name)) ELSE r.value

\* normalize_artist_name, lines 356-375
normalize_artist_name(artist_name) ==
    IF artist_name = <<>> THEN <<>>
    ELSE LET r == normalize_text(normalize_featuring(artist_name))
         IN IF r.exc # None THEN strip(lower(artist_name)) ELSE r.value

---------------------------------------------------------------------------
(* SimpleSyncEngine.sync_playlist_spotify_to_youtube: its pure parts *)

NoResult == [returned |-> FALSE]

\* No library function is being called
NoCall == [fn |-> "none"]
NoFrame == [pc |-> "none"]

SyncResult(name, total, matched, failed, songs, ok) ==
    [returned |-> TRUE, playlist_name |-> name, total_tracks |-> total,
     matched_tracks |-> matched, failed_tracks |-> failed,
     failed_songs |-> songs, success |-> ok]

\* lines 78-81
PlaylistName(playlists, id) ==
    IF id \in playlists THEN "My Playlist" ELSE "Unknown Playlist"

\* line 88: if not source_tracks
NoSourceTracks(tracks) == Len(tracks) = 0

\* the empty-playlist return reporting a failed run
EmptyResult_failure(name) == SyncResult(name, 0, 0, 0, <<>>, FALSE)

\* lines 90-98
EmptyResult(name) == SyncResult(name, 0, 0, 0, <<>>, TRUE)

\* line 129 passing over every other track
NextTrack_skipping(k) == k + 2

\* line 129: for idx, track in enumerate(source_tracks, 1)
NextTrack(k) == k + 1

\* lines 126-207 with the accepted ids inserted into the baseline
BaselineAfterTrack_inserting(existing, matched) ==
    existing \cup {matched[k] : k \in 1..Len(matched)}

\* lines 126-207: the loop reads existing_track_ids (line 161) and assigns
\* it nowhere; an accepted id goes to matched_video_ids alone (line 171)
BaselineAfterTrack(existing, matched) == existing

\* line 102 taking every run for one without a target
NoTarget_always(id) == TRUE

\* line 102: if not youtube_playlist_id
NoTarget(id) == id = None

\* line 111 without the check of create_playlist's answer
CreateFailed_unchecked(id) == FALSE

\* line 111: if not youtube_playlist_id
CreateFailed(id) == id = None

\* line 134: ', '.join(track['artists'])
RECURSIVE JoinArtists(_)
JoinArtists(names) ==
    IF names = <<>> THEN <<>>
    ELSE IF Len(names) = 1 THEN Head(names)
    ELSE Head(names) \o <<",", " ">> \o JoinArtists(Tail(names))

\* lines 139-140: normalize_track_name and normalize_artist_name, tabulated
\* over the names and the artists of the source tracks
SourceNames == {SongName, PunctuationName}
SourceArtists == {JoinArtists(SongArtists), JoinArtists(NoArtists)}
NormalizedTrackNames == [name \in SourceNames |-> normalize_track_name(name)]
NormalizedArtistNames == [name \in SourceArtists |-> normalize_artist_name(name)]

\* line 121
ExistingTrackIds(tracks) ==
    IF tracks.keys = "videoId_title" THEN tracks.ids ELSE {}

\* lines 147-148: youtube_result.get('videoId'), None when the result is None
\* or has no such key
VideoIdOf(r) ==
    IF r.kind = "dict" /\ r.keys = "videoId_title" THEN r.vid ELSE None

\* line 151
InvalidVideoId(video_id) == Len(video_id) < 5

\* line 161
AlreadyInPlaylist(video_id, existing) == video_id \in existing

\* lines 166-171: calculate_similarity calls .lower() on the result's artists
ScoringRaises(r) == ~r.artists_str

\* lines 173-200 with the auto-add test of line 185 made at the lower edge of
\* the band of line 178
Decision_auto_add_at_possible(conf) ==
    IF conf >= possible_threshold THEN "append" ELSE "low"

\* lines 173-200: what the loop does with a confidence
Decision(conf) ==
    IF conf >= accept_threshold THEN "append"
    ELSE IF conf >= possible_threshold
         THEN IF conf >= auto_add_threshold THEN "append" ELSE "low_possible"
         ELSE "low"

FailedSong(track, reason, conf) ==
    [track |-> track, reason |-> reason, confidence |-> conf]

\* lines 221-222 with each slice starting on the last id of the one before
Batch_overlapping(ids, offset) ==
    SubSeq(ids, IF offset = 0 THEN 1 ELSE offset,
           Min(offset + batch_size, Len(ids)))

\* lines 221-222: the batch at offset i
Batch(ids, offset) == SubSeq(ids, offset + 1, Min(offset + batch_size, Len(ids)))

\* lines 227-248: time.sleep(1) is the last statement of the try block, so
\* it is reached when the call returned and another batch follows
Sleeps(res, offset, ids) ==
    res.kind # "raise" /\ offset + batch_size < Len(ids)

\* lines 230-240: what a result adds to successfully_added
Added(res) ==
    IF res.kind = "dict" THEN (IF res.success THEN res.added ELSE 0) ELSE 0

\* lines 279-287
FinalResult(name, tracks, matched, songs) ==
    SyncResult(name, Len(tracks), Len(matched), Len(songs), songs, TRUE)

\* lines 291-299
FailureResult == SyncResult("Unknown", 0, 0, 0, <<>>, FALSE)

\* line 289 catching ValueError only
Catches_only_ValueError(exc) == exc = "ValueError"

\* line 289: except Exception
Catches(exc) == TRUE

---------------------------------------------------------------------------
(* The run *)

Init ==
    /\ sp \in BOOLEAN
    /\ create_if_missing \in BOOLEAN
    /\ youtube_playlist_id \in {None, "PLgiven"}
    /\ suppliedId = youtube_playlist_id
    /\ baselineCalls = <<>>
    /\ pc = "get_playlists"
    /\ playlist_name = None
    /\ source_tracks = <<>>
    /\ existing_track_ids = {}
    /\ matched_video_ids = <<>>
    /\ failed_songs = <<>>
    /\ idx = 1
    /\ i = 0
    /\ successfully_added = 0
    /\ result = NoResult
    /\ srcFetch = "none"
    /\ createCalls = 0
    /\ baselineReturned = {}
    /\ searchCalls = 0
    /\ searchFailedAt = {}
    /\ skippedAt = {}
    /\ acceptedAt = <<>>
    /\ acceptedConf = <<>>
    /\ searchedAt = {}
    /\ addCalls = <<>>
    /\ raised = None
    /\ returns = 0
    /\ fn_call = NoCall
    /\ fn_result = NoCall
    /\ active = 1
    /\ suspended = NoFrame
    /\ authLog = <<>>

\* An exception raised inside the try block: lines 289-299
Abort(exc) ==
    /\ raised' = exc
    /\ IF Catches(exc)
       THEN /\ pc' = "done"
            /\ result' = FailureResult
            /\ returns' = returns + 1
       ELSE /\ pc' = "escaped"
            /\ UNCHANGED <<result, returns>>

\* A return statement of the function
Return(r) ==
    /\ pc' = "done"
    /\ result' = r
    /\ returns' = returns + 1
    /\ UNCHANGED raised

Continue(next) ==
    /\ pc' = next
    /\ UNCHANGED <<result, returns, raised>>

\* lines 77-81
GetUserPlaylists ==
    /\ pc = "get_playlists"
    /\ \E api \in PlaylistsAnswers :
         LET r == get_user_playlists(sp, api)
         IN IF r.exc # None
            THEN Abort(r.exc) /\ UNCHANGED playlist_name
            ELSE /\ playlist_name' = PlaylistName(r.value, SourcePlaylist)
                 /\ Continue("fetch_source")
    /\ UNCHANGED <<sp, create_if_missing, source_tracks, youtube_playlist_id,
                   existing_track_ids, matched_video_ids, failed_songs, idx, i,
                   successfully_added, srcFetch, createCalls, baselineReturned,
                   searchCalls, searchFailedAt, skippedAt, acceptedAt, acceptedConf,
                   searchedAt, addCalls, suppliedId,
                   baselineCalls, restVars>>

\* lines 86-100
FetchSource ==
    /\ pc = "fetch_source"
    /\ \E api \in TracksAnswers :
         LET r == spotify_get_playlist_tracks(sp, api)
         IN /\ srcFetch' = IF r.exc # None THEN srcFetch
                            ELSE IF api.raise THEN "raise" ELSE "ok"
            /\ IF r.exc # None
               THEN Abort(r.exc) /\ UNCHANGED source_tracks
               ELSE /\ source_tracks' = r.value
                    /\ IF NoSourceTracks(r.value)
                       THEN Return(EmptyResult(playlist_name))
                       ELSE Continue("resolve_target")
    /\ UNCHANGED <<sp, create_if_missing, playlist_name, youtube_playlist_id,
                   existing_track_ids, matched_video_ids, failed_songs, idx, i,
                   successfully_added, createCalls, baselineReturned,
                   searchCalls, searchFailedAt, skippedAt, acceptedAt, acceptedConf,
                   searchedAt, addCalls, suppliedId,
                   baselineCalls, restVars>>

\* lines 102-116
ResolveTarget ==
    /\ pc = "resolve_target"
    /\ IF NoTarget(youtube_playlist_id)
       THEN IF create_if_missing
            THEN \E api \in CreateAnswers :
                   LET id == create_playlist(api)
                   IN /\ createCalls' = createCalls + 1
                      /\ youtube_playlist_id' = id
                      /\ IF CreateFailed(id)
                         THEN Abort("Exception")
                         ELSE Continue("baseline")
            ELSE /\ Abort("ValueError")
                 /\ UNCHANGED <<createCalls, youtube_playlist_id>>
       ELSE /\ Continue("baseline")
            /\ UNCHANGED <<createCalls, youtube_playlist_id>>
    /\ UNCHANGED <<sp, create_if_missing, playlist_name, source_tracks,
                   existing_track_ids, matched_video_ids, failed_songs, idx, i,
                   successfully_added, srcFetch, baselineReturned,
                   searchCalls, searchFailedAt, skippedAt, acceptedAt,
                   acceptedConf, searchedAt, addCalls, suppliedId,
                   baselineCalls, restVars>>

\* lines 118-127
FetchBaseline ==
    /\ pc = "baseline"
    /\ \E api \in PlaylistAnswers :
         \E tracks \in BaselineResults(api) :
            /\ baselineCalls' = Append(baselineCalls, youtube_playlist_id)
            /\ baselineReturned' = tracks.ids
            /\ existing_track_ids' = ExistingTrackIds(tracks)
    /\ matched_video_ids' = <<>>
    /\ failed_songs' = <<>>
    /\ idx' = 1
    /\ Continue(IF Len(source_tracks) > 0 THEN "match" ELSE "summary")
    /\ UNCHANGED <<sp, create_if_missing, playlist_name, source_tracks,
                   youtube_playlist_id, i, successfully_added, srcFetch,
                   createCalls, searchCalls, searchFailedAt, skippedAt,
                   acceptedAt, acceptedConf, searchedAt, addCalls, suppliedId,
                   restVars>>

\* Where the run goes when the match loop ends its iteration: the next
\* track, or lines 209-219 / 256-257
AfterTrack(matched) ==
    IF idx < Len(source_tracks) THEN "match"
    ELSE IF Len(matched) > 0 THEN "add" ELSE "summary"

\* lines 133-207: one iteration of the match loop
MatchTrack ==
    /\ pc = "match"
    /\ idx <= Len(source_tracks)
    /\ LET track == source_tracks[idx]
           track_name == track.name
           artists == JoinArtists(track.artists)
           normalized_track == NormalizedTrackNames[track_name]
           normalized_artist == NormalizedArtistNames[artists]
       IN
       \E api \in QueryAnswers(normalized_track, normalized_artist, idx,
                               Len(source_tracks)) :
         \E r \in SearchResults(api, IsBulk(Len(source_tracks))) :
           LET video_id == VideoIdOf(r)
               fail(reason, conf) ==
                   /\ failed_songs' = Append(failed_songs, FailedSong(track, reason, conf))
                   /\ idx' = NextTrack(idx)
                   /\ Continue(AfterTrack(matched_video_ids))
                   /\ UNCHANGED <<matched_video_ids, skippedAt, acceptedAt,
                                  acceptedConf>>
               append(conf) ==
                   /\ matched_video_ids' = Append(matched_video_ids, video_id)
                   /\ acceptedAt' = Append(acceptedAt, idx)
                   /\ acceptedConf' = Append(acceptedConf, conf)
                   /\ idx' = NextTrack(idx)
                   /\ Continue(AfterTrack(Append(matched_video_ids, video_id)))
                   /\ UNCHANGED <<failed_songs, skippedAt>>
           IN /\ searchCalls' = searchCalls + 1
              /\ searchedAt' = searchedAt \cup {idx}
              /\ searchFailedAt' =
                    IF api.raise THEN searchFailedAt \cup {idx} ELSE searchFailedAt
              /\ IF r.kind = "raise"
                 THEN /\ Abort(r.exc)
                      /\ UNCHANGED <<matched_video_ids, failed_songs, idx,
                                     skippedAt, acceptedAt, acceptedConf>>
                 ELSE IF video_id = None
                 THEN fail("Not found on YouTube Music", 0)
                 ELSE IF InvalidVideoId(video_id)
                 THEN fail("Invalid video ID", 0)
                 ELSE IF AlreadyInPlaylist(video_id, existing_track_ids)
                 THEN /\ skippedAt' = skippedAt \cup {idx}
                      /\ idx' = NextTrack(idx)
                      /\ Continue(AfterTrack(matched_video_ids))
                      /\ UNCHANGED <<matched_video_ids, failed_songs, acceptedAt,
                                     acceptedConf>>
                 ELSE IF ScoringRaises(r)
                 THEN /\ Abort("AttributeError")
                      /\ UNCHANGED <<matched_video_ids, failed_songs, idx,
                                     skippedAt, acceptedAt, acceptedConf>>
                 ELSE LET conf == find_best_match(r.sims)
                      IN IF Decision(conf) = "append" THEN append(conf)
                         ELSE IF Decision(conf) = "low_possible"
                         THEN fail("Low match confidence (YouTube title)", conf)
                         ELSE fail("Low match confidence", conf)
    /\ existing_track_ids' =
          BaselineAfterTrack(existing_track_ids, matched_video_ids')
    /\ UNCHANGED <<sp, create_if_missing, playlist_name, source_tracks,
                   youtube_playlist_id, i, successfully_added, srcFetch,
                   createCalls, baselineReturned, addCalls, suppliedId,
                   baselineCalls, restVars>>

\* lines 221-248: one iteration of the batch loop
AddBatch ==
    /\ pc = "add"
    /\ i < Len(matched_video_ids)
    /\ LET batch == Batch(matched_video_ids, i)
       IN \E api \in AddItemsAnswers :
            \E res \in AddResults(batch, api) :
              /\ addCalls' = Append(addCalls,
                     [playlist |-> youtube_playlist_id, ids |-> batch,
                      result |-> res,
                      slept |-> Sleeps(res, i, matched_video_ids)])
              /\ successfully_added' = successfully_added + Added(res)
    /\ i' = i + batch_size
    /\ Continue(IF i + batch_size < Len(matched_video_ids) THEN "add" ELSE "summary")
    /\ UNCHANGED <<sp, create_if_missing, playlist_name, source_tracks,
                   youtube_playlist_id, existing_track_ids, matched_video_ids,
                   failed_songs, idx, srcFetch, createCalls, baselineReturned,
                   searchCalls, searchFailedAt, skippedAt, acceptedAt,
                   acceptedConf, searchedAt, suppliedId,
                   baselineCalls, restVars>>

\* lines 259-287
Summary ==
    /\ pc = "summary"
    /\ Return(FinalResult(playlist_name, source_tracks, matched_video_ids,
                          failed_songs))
    /\ UNCHANGED <<sp, create_if_missing, playlist_name, source_tracks,
                   youtube_playlist_id, existing_track_ids, matched_video_ids,
                   failed_songs, idx, i, successfully_added, srcFetch,
                   createCalls, baselineReturned, searchCalls, searchFailedAt,
                   skippedAt, acceptedAt, acceptedConf, searchedAt, addCalls,
                   suppliedId,
                   baselineCalls, restVars>>

Next ==
    \/ GetUserPlaylists
    \/ FetchSource
    \/ ResolveTarget
    \/ FetchBaseline
    \/ MatchTrack
    \/ AddBatch
    \/ Summary

Spec == Init /\ [][Next]_vars

\* The run is one thread of control: a step that can be taken is taken.
FairSpec == Spec /\ WF_vars(Next)

TypeOK ==
    /\ pc \in {"get_playlists", "fetch_source", "resolve_target", "baseline",
               "match", "add", "summary", "done", "escaped"}
    /\ returns \in 0..1
    /\ idx \in 1..(Len(source_tracks) + 1)

---------------------------------------------------------------------------
(* Helpers of the properties *)

RECURSIVE Concat(_)
Concat(seqs) == IF seqs = <<>> THEN <<>> ELSE Head(seqs) \o Concat(Tail(seqs))

\* Every id passed to add_songs_to_playlist, in call order
Submitted == Concat([k \in 1..Len(addCalls) |-> addCalls[k].ids])

\* The destination did not add the ids of this call
AddFailed(res) ==
    \/ res.kind = "raise"
    \/ res.kind = "None"
    \/ res.kind = "dict" /\ ~res.success
    \/ res.kind = "bool" /\ ~res.value

\* The run got as far as the match loop
ReachedMatchLoop == searchCalls > 0

EntriesFor(songs, track) == {e \in 1..Len(songs) : songs[e].track = track}

---------------------------------------------------------------------------
(* The properties *)

\* C1: over one run, no destination track id is passed to
\* add_songs_to_playlist more than once, even when several source tracks
\* resolve to the same id.
C1_NoIdSubmittedTwice ==
    \A a, b \in 1..Len(Submitted) : a # b => Submitted[a] # Submitted[b]

\* C2: an id that is among the tracks the destination's get_playlist_tracks
\* returned for the baseline is never passed to add_songs_to_playlist.
C2_BaselineIdNeverSubmitted ==
    \A a \in 1..Len(Submitted) : Submitted[a] \notin baselineReturned

\* C3: when no target id is supplied and create_playlist yields no id, the
\* run goes straight to the report: success=false, all counts zero, and no
\* destination search and no add_songs_to_playlist call is made.
C3_CreateFailureGoesToReport ==
    (createCalls > 0 /\ youtube_playlist_id = None) =>
        /\ pc = "done"
        /\ returns = 1
        /\ result.returned
        /\ ~result.success
        /\ result.total_tracks = 0
        /\ result.matched_tracks = 0
        /\ result.failed_tracks = 0
        /\ result.failed_songs = <<>>
        /\ searchCalls = 0
        /\ addCalls = <<>>

C3_Witness ==
    /\ createCalls = 1
    /\ youtube_playlist_id = None
    /\ pc = "done"
    /\ ~result.success
    /\ Len(source_tracks) > 0

\* C4: when the source API call raises while the source tracks are fetched,
\* the run ends with success=false.
C4_FailedSourceFetchNotSuccess ==
    (pc = "done" /\ srcFetch = "raise") => ~result.success

\* C5: every invocation ends by returning exactly one SyncResult, whatever
\* the collaborators answer: no exception escapes, no step before the return
\* blocks, the result is assembled once, and the return is reached.
C5_Safety ==
    /\ pc # "escaped"
    /\ returns <= 1
    /\ (pc = "done") <=> (returns = 1)
    /\ (returns = 1) <=> result.returned
    /\ pc # "done" => ENABLED Next

C5_AlwaysReturnsOneResult ==
    /\ []C5_Safety
    /\ <>(pc = "done" /\ returns = 1 /\ result.returned)
    /\ [][pc = "done" => result' = result]_vars

C5_Witness ==
    /\ pc = "done"
    /\ raised = "AttributeError"
    /\ returns = 1
    /\ ~result.success

\* C6: a source playlist with zero tracks gives success=true, total, matched
\* and failed counts zero and an empty failed list.
C6_EmptySourceIsSuccess ==
    (pc = "done" /\ srcFetch = "ok" /\ Len(source_tracks) = 0) =>
        /\ result.success
        /\ result.total_tracks = 0
        /\ result.matched_tracks = 0
        /\ result.failed_tracks = 0
        /\ result.failed_songs = <<>>

C6_Witness ==
    /\ pc = "done"
    /\ srcFetch = "ok"
    /\ Len(source_tracks) = 0
    /\ result.success
    /\ searchCalls = 0

\* C7: a failure of the destination search for one source track is caught:
\* the step appends exactly one unmatched entry for that track, the loop goes
\* on with the next track, and nothing is raised; in the report of a run that
\* no exception ended, the track has exactly one entry and success is true.
C7_SearchFailureStep ==
    (pc = "match" /\ searchFailedAt' # searchFailedAt) =>
        /\ searchFailedAt' = searchFailedAt \cup {idx}
        /\ failed_songs' = Append(failed_songs,
               FailedSong(source_tracks[idx], "Not found on YouTube Music", 0))
        /\ matched_video_ids' = matched_video_ids
        /\ idx' = idx + 1
        /\ pc' = (IF idx < Len(source_tracks) THEN "match"
                  ELSE IF Len(matched_video_ids) > 0 THEN "add" ELSE "summary")
        /\ raised' = None
        /\ result' = NoResult

C7_SearchFailureReport ==
    (pc = "done" /\ raised = None) =>
        \A k \in searchFailedAt :
            /\ Cardinality(EntriesFor(result.failed_songs, source_tracks[k])) = 1
            /\ result.success

C8_PerItemFailureNeverEndsRun ==
    (pc = "done" /\ ReachedMatchLoop) =>
        /\ result.success
        /\ searchCalls = Len(source_tracks)
        /\ result.failed_songs = failed_songs
        /\ result.matched_tracks = Len(matched_video_ids)

\* C9: every id that was submitted and whose addition failed appears in the
\* final report as a failed addition.
C9_FailedAdditionsReported ==
    (pc = "done" /\ result.success) =>
        \A k \in 1..Len(addCalls) :
            AddFailed(addCalls[k].result) =>
                \A j \in 1..Len(addCalls[k].ids) :
                    EntriesFor(result.failed_songs,
                        source_tracks[acceptedAt[(k - 1) * batch_size + j]]) # {}

\* C10: after a run that reaches the match loop, every source track is in
\* the report exactly once, as accepted, unmatched or skipped:
\* total = matched + unmatched + skipped.
C10_EveryTrackInReport ==
    (pc = "done" /\ ReachedMatchLoop) =>
        /\ result.total_tracks = Len(source_tracks)
        /\ result.total_tracks =
              result.matched_tracks + result.failed_tracks + Cardinality(skippedAt)
        /\ \A k \in 1..Len(source_tracks) :
              Cardinality(EntriesFor(result.failed_songs, source_tracks[k]))
                = (IF k \in skippedAt \/ \E m \in 1..Len(acceptedAt) : acceptedAt[m] = k
                   THEN 0 ELSE 1)

---------------------------------------------------------------------------
(* The counts of the report *)

RECURSIVE Sum(_)
Sum(seq) == IF seq = <<>> THEN 0 ELSE Head(seq) + Sum(Tail(seq))

\* The number of ids the destination reported as added by one call
ReportedAdded(call) ==
    IF call.result.kind = "dict" /\ call.result.success
    THEN call.result.added ELSE 0

DestinationAdded ==
    Sum([k \in 1..Len(addCalls) |-> ReportedAdded(addCalls[k])])

\* Every add call was answered with a count or with an exception
CountedAnswers ==
    \A k \in 1..Len(addCalls) : addCalls[k].result.kind \in {"dict", "raise"}

\* The counts a SyncResult carries
CountFields == {"total_tracks", "matched_tracks", "failed_tracks"}

\* C11: the final report carries an added count equal to the number of ids
\* the destination reported as added over all batches (the ids of a failed
\* batch not counted), and its matched count is the number of source tracks
\* whose candidate was accepted.
C11_AddedCountInReport ==
    (pc = "done" /\ result.success /\ ReachedMatchLoop /\ CountedAnswers) =>
        /\ \E f \in CountFields : result[f] = DestinationAdded
        /\ result.matched_tracks = Len(acceptedAt)

---------------------------------------------------------------------------
(* The classification of a scored candidate *)

\* The reasons of lines 192 and 199
LowConfidenceReasons ==
    {"Low match confidence (YouTube title)", "Low match confidence"}

\* The confidences a similarity can take, in tenths of a percent
Confidences == 0..1000

\* C12: a candidate with a valid id that is not in the baseline is classified
\* by its score and the thresholds alone (0.70 < 0.75 < 0.80): accepted from
\* 0.80, accepted as borderline in [0.75, 0.80), rejected with a reason below
\* 0.75; its id goes to the submission list exactly when the score is at
\* least 0.75.
C12_ClassificationByScore ==
    /\ possible_threshold < auto_add_threshold
    /\ auto_add_threshold < accept_threshold
    /\ pc = "get_playlists" =>
         \A conf \in Confidences :
             /\ (Decision(conf) = "append") <=> (conf >= auto_add_threshold)
             /\ Decision(conf) \in {"append", "low_possible", "low"}
    /\ Len(acceptedConf) = Len(matched_video_ids)
    /\ \A m \in 1..Len(matched_video_ids) :
         acceptedConf[m] >= auto_add_threshold
    /\ \A e \in 1..Len(failed_songs) :
         /\ failed_songs[e].reason # ""
         /\ failed_songs[e].reason \in LowConfidenceReasons =>
               failed_songs[e].confidence < auto_add_threshold
    /\ \A k \in 1..(idx - 1) :
         \/ k \in skippedAt
         \/ \E m \in 1..Len(acceptedAt) : acceptedAt[m] = k
         \/ EntriesFor(failed_songs, source_tracks[k]) # {}

C12_Witness ==
    /\ pc = "done"
    /\ result.success
    /\ \E m \in 1..Len(acceptedConf) :
         acceptedConf[m] >= auto_add_threshold /\ acceptedConf[m] < accept_threshold
    /\ \E e \in 1..Len(failed_songs) :
         /\ failed_songs[e].reason \in LowConfidenceReasons
         /\ failed_songs[e].confidence >= possible_threshold

\* C13: every track submitted from the borderline band [0.75, 0.80) is
\* flagged in the returned report, so that it can be told from the tracks
\* accepted at 0.80 or more.  The report's only per-track data is
\* failed_songs.
C13_BorderlineFlaggedInReport ==
    (pc = "done" /\ result.success) =>
        \A m \in 1..Len(acceptedConf) :
            acceptedConf[m] < accept_threshold =>
                EntriesFor(result.failed_songs, source_tracks[acceptedAt[m]]) # {}

---------------------------------------------------------------------------
(* Failed batches *)

\* The add calls that submitted exactly these ids
AttemptsOf(ids) == {k \in 1..Len(addCalls) : addCalls[k].ids = ids}

\* C14: a batch whose submission raises or reports failure is submitted
\* again (up to the maximum number of attempts) before the engine gives up on
\* it as a whole.
C14_FailedBatchResubmitted ==
    (pc = "done" /\ result.success) =>
        \A k \in 1..Len(addCalls) :
            (/\ AddFailed(addCalls[k].result)
             /\ \A a \in AttemptsOf(addCalls[k].ids) : k <= a)
                => Cardinality(AttemptsOf(addCalls[k].ids)) >= 2

\* C15: when a batch of several ids has failed as a whole, each of its ids
\* is submitted on its own afterwards, so that the ids the destination
\* accepts are added and only the others are reported as failed.
C15_FailedBatchFallsBackToIds ==
    (pc = "done" /\ result.success) =>
        \A k \in 1..Len(addCalls) :
            (AddFailed(addCalls[k].result) /\ Len(addCalls[k].ids) > 1) =>
                \A j \in 1..Len(addCalls[k].ids) :
                    \E later \in (k + 1)..Len(addCalls) :
                        addCalls[later].ids = <<addCalls[k].ids[j]>>

---------------------------------------------------------------------------
(* Calls of the functions of normalize.py *)

\* A run of the engine that was never started
EngineIdle ==
    /\ sp = FALSE
    /\ create_if_missing = FALSE
    /\ youtube_playlist_id = None
    /\ suppliedId = None
    /\ baselineCalls = <<>>
    /\ pc = "idle"
    /\ playlist_name = None
    /\ source_tracks = <<>>
    /\ existing_track_ids = {}
    /\ matched_video_ids = <<>>
    /\ failed_songs = <<>>
    /\ idx = 1
    /\ i = 0
    /\ successfully_added = 0
    /\ result = NoResult
    /\ srcFetch = "none"
    /\ createCalls = 0
    /\ baselineReturned = {}
    /\ searchCalls = 0
    /\ searchFailedAt = {}
    /\ skippedAt = {}
    /\ acceptedAt = <<>>
    /\ acceptedConf = <<>>
    /\ searchedAt = {}
    /\ addCalls = <<>>
    /\ raised = None
    /\ returns = 0
    /\ active = 1
    /\ suspended = NoFrame
    /\ authLog = <<>>

\* The texts handed to the functions: every text of at most MaxLen
\* characters of a letter, a space, a hyphen and a punctuation mark, and
\* titles with the notations the functions look for
TextAlphabet == {"a", " ", "-", "!"}
TextSamples ==
    {<<"S", "o", "n", "g", " ", "(", "L", "y", "r", "i", "c", "s", ")">>,
     <<"a", " ", " ", "-", " ", " ", "l", "y", "r", "i", "c", "s">>,
     <<"a", " ", "f", "t", ".", " ", "b">>,
     <<"f", ".", "t", " ", "x">>,
     <<"C", "a", "f", "E_acute">>,
     <<"(", "L", "y", "r", "i", "c", "s", ")">>}
Texts == UNION {[1..n -> TextAlphabet] : n \in 0..MaxLen} \cup TextSamples

NormalizeFunctions == {"normalize_text", "normalize_track_name", "normalize_artist_name"}

NormalizeInit ==
    /\ EngineIdle
    /\ fn_call \in [fn : NormalizeFunctions, text : Texts]
    /\ fn_result = NoCall

\* What a call and the call on its result returned
Applied(once, twice) == [fn |-> fn_call.fn, once |-> once, twice |-> twice]

Returned(value) == [exc |-> None, value |-> value]

\* normalize_text(x) and normalize_text(normalize_text(x)); an exception of
\* the first call is the outcome of both
NormalizeText ==
    /\ fn_call.fn = "normalize_text"
    /\ fn_result = NoCall
    /\ LET once == normalize_text(fn_call.text)
       IN fn_result' = Applied(once, IF once.exc # None THEN once
                                     ELSE normalize_text(once.value))
    /\ UNCHANGED <<idleVars, fn_call>>

NormalizeTrackName ==
    /\ fn_call.fn = "normalize_track_name"
    /\ fn_result = NoCall
    /\ LET once == normalize_track_name(fn_call.text)
       IN fn_result' = Applied(Returned(once),
                               Returned(normalize_track_name(once)))
    /\ UNCHANGED <<idleVars, fn_call>>

NormalizeArtistName ==
    /\ fn_call.fn = "normalize_artist_name"
    /\ fn_result = NoCall
    /\ LET once == normalize_artist_name(fn_call.text)
       IN fn_result' = Applied(Returned(once),
                               Returned(normalize_artist_name(once)))
    /\ UNCHANGED <<idleVars, fn_call>>

NormalizeNext ==
    \/ NormalizeText
    \/ NormalizeTrackName
    \/ NormalizeArtistName

NormalizeSpec == NormalizeInit /\ [][NormalizeNext]_vars

\* C19: normalization is idempotent: for every non-empty text x,
\* normalize(normalize(x)) is defined and equals normalize(x).
C19_NormalizeIdempotent ==
    (fn_result # NoCall /\ fn_call.text # <<>>) =>
        /\ fn_result.twice.exc = None
        /\ fn_result.twice.value = fn_result.once.value

---------------------------------------------------------------------------
(* Tracks without a usable name or artist *)

\* The name or the artists of the track are empty or normalize to the empty
\* text
Unmatchable(track) ==
    \/ normalize_track_name(track.name) = <<>>
    \/ normalize_artist_name(JoinArtists(track.artists)) = <<>>

\* C20: a source track whose title or artist is empty or normalizes to the
\* empty text is unmatchable: no destination search is issued for it, it is
\* recorded as unmatched, and the loop goes on to the next track.
C20_UnmatchableTrackNotSearched ==
    \A k \in 1..Len(source_tracks) :
        Unmatchable(source_tracks[k]) =>
            /\ k \notin searchedAt
            /\ k < idx => EntriesFor(failed_songs, source_tracks[k]) # {}

---------------------------------------------------------------------------
(* Calls of SongMatcher.find_best_match *)

\* A song is given by whether it has a title and an artist; a candidate also
\* by its (title_score, artist_score) against the source
SourceSongs == [title : BOOLEAN, artist : BOOLEAN]
CandidateScores == {<<0, 0>>, <<100, 50>>, <<80, 80>>, <<85, 85>>}
CandidateSongs ==
    [title : {TRUE}, artist : {TRUE}, sims : CandidateScores] \cup
    [title : {FALSE}, artist : {TRUE}, sims : {<<0, 85>>}] \cup
    [title : {TRUE}, artist : {FALSE}, sims : {<<85, 0>>}]
CandidateLists == UNION {[1..n -> CandidateSongs] : n \in 0..MaxCands}

\* min_confidence in tenths of a percent: 0, 70 and 85 (test_custom_confidence,
\* the default) and 80
MinConfidences == {0, 700, 800, 850}

MatcherInit ==
    /\ EngineIdle
    /\ fn_call \in [fn : {"find_best_match"}, source_song : SourceSongs,
                    candidate_songs : CandidateLists,
                    min_confidence : MinConfidences]
    /\ fn_result = NoCall

FindBestMatch ==
    /\ fn_call.fn = "find_best_match"
    /\ fn_result = NoCall
    /\ fn_result' = SongMatcher_find_best_match(fn_call.source_song,
                        fn_call.candidate_songs, fn_call.min_confidence)
    /\ UNCHANGED <<idleVars, fn_call>>

MatcherNext == FindBestMatch

MatcherSpec == MatcherInit /\ [][MatcherNext]_vars

\* The score of a candidate
ScoreOf(candidate) == calculate_similarity(candidate.sims[1], candidate.sims[2])

\* The maximum of the scores of the candidates at these positions
MaxScore(candidate_songs, positions) ==
    CHOOSE m \in {ScoreOf(candidate_songs[k]) : k \in positions} :
        \A k \in positions : ScoreOf(candidate_songs[k]) <= m

\* The first of these positions whose candidate has this score
FirstWithScore(candidate_songs, positions, score) ==
    CHOOSE a \in positions :
        /\ ScoreOf(candidate_songs[a]) = score
        /\ \A b \in positions : ScoreOf(candidate_songs[b]) = score => a <= b

\* The call has returned; the source has a title and an artist
CallReturned == fn_result # NoCall
SourceComplete == fn_call.source_song.title /\ fn_call.source_song.artist

\* C16: for a non-empty candidate list and a source with title and artist,
\* match_data is the first candidate in list order whose score is the maximum
\* score over all candidates, and confidence is that maximum.  Checked for
\* the lists whose candidates all have a title and an artist.
C16_FirstMaximumIsReturned ==
    (/\ CallReturned
     /\ SourceComplete
     /\ fn_call.candidate_songs # <<>>
     /\ \A k \in 1..Len(fn_call.candidate_songs) :
            ~MissingTargetMetadata(fn_call.candidate_songs[k])) =>
        LET all == 1..Len(fn_call.candidate_songs)
            max == MaxScore(fn_call.candidate_songs, all)
        IN /\ fn_result.confidence = max
           /\ fn_result.match_data = FirstWithScore(fn_call.candidate_songs, all, max)

\* C17: with an empty candidate list, or a source whose title or artist is
\* missing, find_best_match returns matched=false, confidence 0, no
\* match_data and a reason, and scores no candidate.
C17_NothingToMatch ==
    (CallReturned /\ (fn_call.candidate_songs = <<>> \/ ~SourceComplete)) =>
        /\ ~fn_result.matched
        /\ fn_result.confidence = 0
        /\ fn_result.match_data = NoMatchData
        /\ fn_result.reason # ""
        /\ fn_result.scored = 0

C17_Witness ==
    /\ CallReturned
    /\ fn_call.source_song.title
    /\ ~fn_call.source_song.artist
    /\ Len(fn_call.candidate_songs) = 1
    /\ ~MissingTargetMetadata(fn_call.candidate_songs[1])
    /\ ScoreOf(fn_call.candidate_songs[1]) >= fn_call.min_confidence
    /\ ~fn_result.matched
    /\ fn_result.reason = "Missing source song metadata"

\* C18: find_best_match reports matched=true exactly when it has a best
\* candidate whose score is at least min_confidence; so, for the same source
\* and candidates, a match found at one threshold is found, with the same
\* candidate and confidence, at every lower threshold, and the confidence
\* does not depend on the threshold.
C18_MatchedIffBestMeetsThreshold ==
    CallReturned =>
        /\ fn_result.matched <=>
               (/\ fn_result.match_data # NoMatchData
                /\ fn_result.confidence >= fn_call.min_confidence)
        /\ \A t \in MinConfidences :
             LET other == SongMatcher_find_best_match(fn_call.source_song,
                              fn_call.candidate_songs, t)
             IN /\ other.confidence = fn_result.confidence
                /\ (fn_result.matched /\ t <= fn_call.min_confidence) =>
                       /\ other.matched
                       /\ other.match_data = fn_result.match_data

C18_Witness ==
    /\ CallReturned
    /\ fn_result.matched
    /\ fn_result.confidence = fn_call.min_confidence
    /\ fn_call.min_confidence > 0
    /\ Len(fn_call.candidate_songs) >= 2
    /\ fn_result.match_data = 2

---------------------------------------------------------------------------
(* The target playlist and its baseline *)

\* C21: create_playlist is called at most once in a run, and only when no
\* target id was supplied; a supplied id is used unchanged for the baseline
\* fetch and for every add, and no playlist is created.
C21_TargetCreatedAtMostOnce ==
    /\ createCalls <= 1
    /\ createCalls > 0 => suppliedId = None
    /\ suppliedId # None =>
         /\ createCalls = 0
         /\ youtube_playlist_id = suppliedId
         /\ \A k \in 1..Len(baselineCalls) : baselineCalls[k] = suppliedId
         /\ \A k \in 1..Len(addCalls) : addCalls[k].playlist = suppliedId

C21_Witness ==
    /\ pc = "done"
    /\ suppliedId = "PLgiven"
    /\ baselineCalls = <<"PLgiven">>
    /\ Len(addCalls) >= 1
    /\ addCalls[1].playlist = "PLgiven"
    /\ createCalls = 0

\* C22: in one run the existing tracks of the destination playlist are
\* fetched once, for the resolved target and before the first search or
\* add, and the baseline set is never modified after the fetch.
C22_BaselineFetchedOnce ==
    /\ [](/\ Len(baselineCalls) <= 1
          /\ (searchCalls > 0 \/ addCalls # <<>>) =>
                /\ Len(baselineCalls) = 1
                /\ youtube_playlist_id # None
                /\ baselineCalls[1] = youtube_playlist_id)
    /\ [][baselineCalls' # baselineCalls =>
            /\ pc = "baseline"
            /\ youtube_playlist_id # None
            /\ searchCalls = 0
            /\ addCalls = <<>>]_vars
    /\ [][baselineCalls # <<>> =>
            existing_track_ids' = existing_track_ids]_vars

C22_Witness ==
    /\ pc = "done"
    /\ Len(baselineCalls) = 1
    /\ existing_track_ids # {}
    /\ acceptedAt # <<>>
    /\ skippedAt # {}
    /\ addCalls # <<>>

---------------------------------------------------------------------------
(* The order of the match loop *)

StrictlyIncreasing(positions) ==
    \A j, k \in 1..Len(positions) : j < k => positions[j] < positions[k]

FailedAt == [e \in 1..Len(failed_songs) |-> failed_songs[e].track.pos]

\* The source positions whose decision is recorded
Decided ==
    {acceptedAt[k] : k \in 1..Len(acceptedAt)} \cup skippedAt
        \cup {FailedAt[e] : e \in 1..Len(FailedAt)}

---------------------------------------------------------------------------
(* The batches *)

\* The number of batches the accepted list is cut into
BatchCount == (Len(matched_video_ids) + batch_size - 1) \div batch_size

\* C24: the batches are consecutive slices of the accepted list: none is
\* empty, none has more than 10 ids, all but the last have 10, their
\* concatenation in order is the accepted list, and each batch is submitted
\* after the one before it has returned or raised.
C24_BatchesAreConsecutiveSlices ==
    /\ Len(addCalls) <= BatchCount
    /\ \A k \in 1..Len(addCalls) :
         /\ Len(addCalls[k].ids) \in 1..10
         /\ k < BatchCount => Len(addCalls[k].ids) = 10
         /\ \A j \in 1..Len(addCalls[k].ids) :
               addCalls[k].ids[j] = matched_video_ids[10 * (k - 1) + j]
         /\ addCalls[k].result.kind \in {"raise", "None", "dict", "bool"}
    /\ Submitted = SubSeq(matched_video_ids, 1, Len(Submitted))
    /\ (pc = "done" /\ result.success) =>
         /\ Len(addCalls) = BatchCount
         /\ Submitted = matched_video_ids

C24_Witness ==
    /\ pc = "done"
    /\ result.success
    /\ Len(addCalls) = 2
    /\ Len(addCalls[1].ids) = 10
    /\ Len(addCalls[2].ids) = 1
    /\ addCalls[1].result.kind = "raise"

\* C25: between any two consecutive batches the engine waits the fixed
\* delay, whether the earlier batch succeeded, returned a failure or raised;
\* no delay follows the last batch.
C25_DelayBetweenBatches ==
    \A k \in 1..Len(addCalls) : addCalls[k].slept <=> k < BatchCount

---------------------------------------------------------------------------
(* Calls of SongMatcher.calculate_similarity *)

\* The call is given by the two token_sort_ratio scores and by the lengths
\* of the source's and the target's title and artist taken together.  The
\* difference in length is put on the artists, whose score it bounds:
\* a ratio is at most 200 * shorter / (shorter + longer).
SimilarityScores == {0, 50, 78, 80, 81, 100}
SimilarityLengths == {<<20, 20>>, <<20, 30>>, <<20, 31>>, <<50, 61>>, <<61, 50>>}
PossibleRatio(score, lengths) ==
    score * (lengths[1] + lengths[2]) <= 200 * Min(lengths[1], lengths[2])

SimilarityInit ==
    /\ EngineIdle
    /\ fn_call \in {c \in [fn : {"calculate_similarity"},
                           title_score : SimilarityScores,
                           artist_score : SimilarityScores,
                           lengths : SimilarityLengths] :
                      PossibleRatio(c.artist_score, c.lengths)}
    /\ fn_result = NoCall

CalculateSimilarity ==
    /\ fn_call.fn = "calculate_similarity"
    /\ fn_result = NoCall
    /\ fn_result' = [fn |-> "calculate_similarity",
                     value |-> calculate_similarity(fn_call.title_score,
                                                    fn_call.artist_score)]
    /\ UNCHANGED <<idleVars, fn_call>>

SimilarityNext == CalculateSimilarity

SimilaritySpec == SimilarityInit /\ [][SimilarityNext]_vars

\* The weighted raw score of the call, in tenths of a percent
RawScore == 6 * fn_call.title_score + 4 * fn_call.artist_score

LengthDifference ==
    IF fn_call.lengths[1] >= fn_call.lengths[2]
    THEN fn_call.lengths[1] - fn_call.lengths[2]
    ELSE fn_call.lengths[2] - fn_call.lengths[1]

\* C26: the score of a candidate is the weighted raw score minus 10 points
\* when the raw score is above 80 and the two full strings differ in length
\* by more than 10 characters, and the raw score otherwise.
C26_LengthPenalty ==
    fn_result # NoCall =>
        fn_result.value =
            IF RawScore > 800 /\ LengthDifference > 10
            THEN RawScore - 100
            ELSE RawScore

---------------------------------------------------------------------------
(* Two runs of one engine *)

\* The locals of the executing call of sync_playlist_spotify_to_youtube (and
\* the history of that call)
Frame ==
    [create_if_missing |-> create_if_missing,
     pc |-> pc,
     playlist_name |-> playlist_name,
     source_tracks |-> source_tracks,
     youtube_playlist_id |-> youtube_playlist_id,
     existing_track_ids |-> existing_track_ids,
     matched_video_ids |-> matched_video_ids,
     failed_songs |-> failed_songs,
     idx |-> idx,
     i |-> i,
     successfully_added |-> successfully_added,
     result |-> result,
     srcFetch |-> srcFetch,
     suppliedId |-> suppliedId,
     createCalls |-> createCalls,
     baselineCalls |-> baselineCalls,
     baselineReturned |-> baselineReturned,
     searchCalls |-> searchCalls,
     searchFailedAt |-> searchFailedAt,
     skippedAt |-> skippedAt,
     acceptedAt |-> acceptedAt,
     acceptedConf |-> acceptedConf,
     searchedAt |-> searchedAt,
     addCalls |-> addCalls,
     raised |-> raised,
     returns |-> returns]

\* The locals of a call that has not executed a statement yet
InitialFrame(create, id) ==
    [create_if_missing |-> create,
     pc |-> "get_playlists",
     playlist_name |-> None,
     source_tracks |-> <<>>,
     youtube_playlist_id |-> id,
     existing_track_ids |-> {},
     matched_video_ids |-> <<>>,
     failed_songs |-> <<>>,
     idx |-> 1,
     i |-> 0,
     successfully_added |-> 0,
     result |-> NoResult,
     srcFetch |-> "none",
     suppliedId |-> id,
     createCalls |-> 0,
     baselineCalls |-> <<>>,
     baselineReturned |-> {},
     searchCalls |-> 0,
     searchFailedAt |-> {},
     skippedAt |-> {},
     acceptedAt |-> <<>>,
     acceptedConf |-> <<>>,
     searchedAt |-> {},
     addCalls |-> <<>>,
     raised |-> None,
     returns |-> 0]

\* The executing call has these locals
Executes(f) ==
    /\ create_if_missing = f.create_if_missing
    /\ pc = f.pc
    /\ playlist_name = f.playlist_name
    /\ source_tracks = f.source_tracks
    /\ youtube_playlist_id = f.youtube_playlist_id
    /\ existing_track_ids = f.existing_track_ids
    /\ matched_video_ids = f.matched_video_ids
    /\ failed_songs = f.failed_songs
    /\ idx = f.idx
    /\ i = f.i
    /\ successfully_added = f.successfully_added
    /\ result = f.result
    /\ srcFetch = f.srcFetch
    /\ suppliedId = f.suppliedId
    /\ createCalls = f.createCalls
    /\ baselineCalls = f.baselineCalls
    /\ baselineReturned = f.baselineReturned
    /\ searchCalls = f.searchCalls
    /\ searchFailedAt = f.searchFailedAt
    /\ skippedAt = f.skippedAt
    /\ acceptedAt = f.acceptedAt
    /\ acceptedConf = f.acceptedConf
    /\ searchedAt = f.searchedAt
    /\ addCalls = f.addCalls
    /\ raised = f.raised
    /\ returns = f.returns

\* Two calls on one engine, each with a target playlist of its own, the
\* second not yet started.  The engine and its two services are shared; each
\* call has its own locals.
TwoRunInit ==
    /\ sp \in BOOLEAN
    /\ Executes(InitialFrame(FALSE, "PLgiven"))
    /\ fn_call = NoCall
    /\ fn_result = NoCall
    /\ active = 1
    /\ suspended = InitialFrame(FALSE, "PLother")
    /\ authLog = <<>>

\* The locals a call resumes with, were the baseline set an attribute of the
\* engine
Resumed_sharing_baseline(frame, current) ==
    [frame EXCEPT !.existing_track_ids = current.existing_track_ids]

\* The locals a call resumes with: its own, whatever the call that executed
\* in between did to its locals
Resumed(frame, current) == frame

\* The executing call stops at a call of a collaborator and the other call,
\* unless it has ended, goes on from where it stopped
Switch ==
    /\ suspended # NoFrame
    /\ suspended.pc \notin {"done", "escaped"}
    /\ create_if_missing' = Resumed(suspended, Frame).create_if_missing
    /\ pc' = Resumed(suspended, Frame).pc
    /\ playlist_name' = Resumed(suspended, Frame).playlist_name
    /\ source_tracks' = Resumed(suspended, Frame).source_tracks
    /\ youtube_playlist_id' = Resumed(suspended, Frame).youtube_playlist_id
    /\ existing_track_ids' = Resumed(suspended, Frame).existing_track_ids
    /\ matched_video_ids' = Resumed(suspended, Frame).matched_video_ids
    /\ failed_songs' = Resumed(suspended, Frame).failed_songs
    /\ idx' = Resumed(suspended, Frame).idx
    /\ i' = Resumed(suspended, Frame).i
    /\ successfully_added' = Resumed(suspended, Frame).successfully_added
    /\ result' = Resumed(suspended, Frame).result
    /\ srcFetch' = Resumed(suspended, Frame).srcFetch
    /\ suppliedId' = Resumed(suspended, Frame).suppliedId
    /\ createCalls' = Resumed(suspended, Frame).createCalls
    /\ baselineCalls' = Resumed(suspended, Frame).baselineCalls
    /\ baselineReturned' = Resumed(suspended, Frame).baselineReturned
    /\ searchCalls' = Resumed(suspended, Frame).searchCalls
    /\ searchFailedAt' = Resumed(suspended, Frame).searchFailedAt
    /\ skippedAt' = Resumed(suspended, Frame).skippedAt
    /\ acceptedAt' = Resumed(suspended, Frame).acceptedAt
    /\ acceptedConf' = Resumed(suspended, Frame).acceptedConf
    /\ searchedAt' = Resumed(suspended, Frame).searchedAt
    /\ addCalls' = Resumed(suspended, Frame).addCalls
    /\ raised' = Resumed(suspended, Frame).raised
    /\ returns' = Resumed(suspended, Frame).returns
    /\ suspended' = Frame
    /\ active' = 3 - active
    /\ UNCHANGED <<sp, callVars, authLog>>

\* A step of the executing call, on playlists of at most one track
RunStep == Next /\ Len(source_tracks') <= 1

TwoRunNext ==
    \/ RunStep
    \/ Switch

TwoRunSpec == TwoRunInit /\ [][TwoRunNext]_vars

---------------------------------------------------------------------------
(* Batches the destination added *)

\* The number of ids a completed call added: the count the answer carries,
\* or every id of the batch when the answer is the bare True of
\* YouTubeMusicService.add_songs_to_playlist
CompletedCount(call) ==
    IF AddFailed(call.result) THEN 0
    ELSE IF call.result.kind = "dict" THEN call.result.added
    ELSE Len(call.ids)

\* C28: when add_songs_to_playlist completes a batch without error the engine
\* counts the ids of the batch as successfully added; it treats a batch as
\* failed only when the service reported failure for it or raised.
C28_CompletedBatchCounted ==
    successfully_added =
        Sum([k \in 1..Len(addCalls) |-> CompletedCount(addCalls[k])])

---------------------------------------------------------------------------
(* Calls of SpotifyService *)

\* Most calls of authenticate() in a behaviour
MaxAuth == 3

\* How a call of authenticate() goes: it returns False before the client is
\* built (lines 83-104, or SpotifyOAuth raises), or it builds the client
\* (line 107) and current_user() answers or raises (lines 113-131)
AuthAnswers == {"no_client", "verified", "not_verified"}

\* authenticate(): whether self.sp is set afterwards, and the value returned
authenticate(authed, answer) ==
    IF answer = "no_client" THEN [sp |-> authed, value |-> FALSE]
    ELSE IF answer = "verified" THEN [sp |-> TRUE, value |-> TRUE]
    ELSE [sp |-> TRUE, value |-> FALSE]

\* search_track: RuntimeError when self.sp is not set; an API error is logged
\* and an empty list returned
spotify_search_track(authed, api) ==
    IF ~authed THEN [exc |-> "RuntimeError", value |-> <<>>]
    ELSE IF api.raise THEN [exc |-> None, value |-> <<>>]
    ELSE [exc |-> None, value |-> <<"track">>]

\* SpotifyService.create_playlist: None when the API raises
spotify_create_playlist(authed, api) ==
    IF ~authed THEN [exc |-> "RuntimeError", value |-> None]
    ELSE IF api.raise THEN [exc |-> None, value |-> None]
    ELSE [exc |-> None, value |-> "playlist_id"]

\* add_tracks_to_playlist: False when the API raises
spotify_add_tracks_to_playlist(authed, api) ==
    IF ~authed THEN [exc |-> "RuntimeError", value |-> FALSE]
    ELSE IF api.raise THEN [exc |-> None, value |-> FALSE]
    ELSE [exc |-> None, value |-> TRUE]

DataOperations ==
    {"get_user_playlists", "get_playlist_tracks", "search_track",
     "create_playlist", "add_tracks_to_playlist"}

\* What the Spotify API answers to a data operation
ApiAnswers(op) ==
    IF op = "get_user_playlists" THEN PlaylistsAnswers
    ELSE IF op = "get_playlist_tracks"
    THEN {[raise |-> TRUE, items |-> <<>>], [raise |-> FALSE, items |-> Tracks(1)]}
    ELSE {[raise |-> TRUE], [raise |-> FALSE]}

DataOperation(op, authed, api) ==
    IF op = "get_user_playlists" THEN get_user_playlists(authed, api)
    ELSE IF op = "get_playlist_tracks" THEN spotify_get_playlist_tracks(authed, api)
    ELSE IF op = "search_track" THEN spotify_search_track(authed, api)
    ELSE IF op = "create_playlist" THEN spotify_create_playlist(authed, api)
    ELSE spotify_add_tracks_to_playlist(authed, api)

\* A service just constructed: self.sp = None (line 41)
SpotifyInit ==
    /\ EngineIdle
    /\ fn_call = NoCall
    /\ fn_result = NoCall

Authenticate ==
    /\ Len(authLog) < MaxAuth
    /\ \E answer \in AuthAnswers :
         /\ sp' = authenticate(sp, answer).sp
         /\ authLog' = Append(authLog, authenticate(sp, answer).value)
    /\ UNCHANGED <<runLocals, callVars, active, suspended>>

CallDataOperation ==
    /\ \E op \in DataOperations :
         \E api \in ApiAnswers(op) :
            /\ fn_call' = [fn |-> op]
            /\ fn_result' = DataOperation(op, sp, api)
    /\ UNCHANGED <<idleVars>>

SpotifyNext ==
    \/ Authenticate
    \/ CallDataOperation

SpotifySpec == SpotifyInit /\ [][SpotifyNext]_vars

\* No call of authenticate() has returned True
NeverAuthenticated == \A k \in 1..Len(authLog) : ~authLog[k]

\* C29: every data operation of SpotifyService raises RuntimeError unless an
\* earlier authenticate() returned True; after every authenticate() that
\* returns False the service is still unauthenticated.
C29_DataOperationsNeedAuthentication ==
    NeverAuthenticated =>
        /\ ~sp
        /\ fn_result # NoCall => fn_result.exc = "RuntimeError"

---------------------------------------------------------------------------
(* Calls of SongMatcher.match_playlists *)

\* Longest source list handed to match_playlists
MaxSources == 2

\* min_confidence of SongMatcher(), in tenths of a percent
default_min_confidence == 850

\* What target_search_func does for one track: it raises, or it returns a
\* list of candidates
SearchBehaviours ==
    {[raise |-> TRUE, candidates |-> <<>>]} \cup
    {[raise |-> FALSE, candidates |-> c] :
        c \in {l \in CandidateLists : Len(l) <= 1}}

\* lines 220-259: the iterations from the k-th track on
RECURSIVE MatchLoop(_, _, _, _)
MatchLoop(tracks, searches, k, lists) ==
    IF k > Len(tracks) THEN lists
    ELSE LET track == tracks[k]
             res == SongMatcher_find_best_match(track, searches[k].candidates,
                                                default_min_confidence)
             unmatched(reason) ==
                 [lists EXCEPT !.unmatched =
                     Append(@, [source_track |-> k, reason |-> reason])]
         IN MatchLoop(tracks, searches, k + 1,
                IF MissingSourceMetadata(track) THEN unmatched("Missing metadata")
                ELSE IF searches[k].raise THEN unmatched("Search error")
                ELSE IF res.matched
                THEN [lists EXCEPT !.matched =
                         Append(@, [source_track |-> k,
                                    target_track |-> res.match_data,
                                    confidence |-> res.confidence])]
                ELSE unmatched(res.reason))

\* SongMatcher.match_playlists, lines 189-266: the log line of 261-264
\* divides by the number of source tracks
match_playlists(tracks, searches) ==
    LET lists == MatchLoop(tracks, searches, 1,
                           [matched |-> <<>>, unmatched |-> <<>>])
    IN IF Len(tracks) = 0
       THEN [fn |-> "match_playlists", exc |-> "ZeroDivisionError",
             matched |-> <<>>, unmatched |-> <<>>]
       ELSE [fn |-> "match_playlists", exc |-> None,
             matched |-> lists.matched, unmatched |-> lists.unmatched]

PlaylistsInit ==
    /\ EngineIdle
    /\ \E n \in 0..MaxSources :
         fn_call \in [fn : {"match_playlists"},
                      source_tracks : [1..n -> SourceSongs],
                      searches : [1..n -> SearchBehaviours]]
    /\ fn_result = NoCall

MatchPlaylists ==
    /\ fn_call.fn = "match_playlists"
    /\ fn_result = NoCall
    /\ fn_result' = match_playlists(fn_call.source_tracks, fn_call.searches)
    /\ UNCHANGED <<idleVars, fn_call>>

PlaylistsNext == MatchPlaylists

PlaylistsSpec == PlaylistsInit /\ [][PlaylistsNext]_vars

\* The source positions of the entries of a list
SourcesOf(list) == [e \in 1..Len(list) |-> list[e].source_track]

\* C30: match_playlists returns normally for every source list, the empty
\* one included, and for every behaviour of the search function, raising
\* included; every source track is in exactly one of the matched and the
\* unmatched list, and the two lengths add up to the number of source tracks.
C30_EveryTrackInOneList ==
    fn_result # NoCall =>
        /\ fn_result.exc = None
        /\ Len(fn_result.matched) + Len(fn_result.unmatched)
              = Len(fn_call.source_tracks)
        /\ \A k \in 1..Len(fn_call.source_tracks) :
              Cardinality({e \in 1..Len(fn_result.matched) :
                              SourcesOf(fn_result.matched)[e] = k})
              + Cardinality({e \in 1..Len(fn_result.unmatched) :
                              SourcesOf(fn_result.unmatched)[e] = k}) = 1

====
